---- MODULE Spec2Model ----
(***************************************************************************)
(* ChartJSNodeCanvas: the render facade over chart.js and a canvas         *)
(* implementation (src/src/index.ts, with the renderToDataURL variants of  *)
(* the earlier build in src/unnamed/part_001).                             *)
(*                                                                         *)
(* chart.js and the canvas library are external collaborators: the chart   *)
(* constructor may raise, the canvas may be absent afterwards, an encode   *)
(* may fail.  Those outcomes are inputs of the actions.                    *)
(***************************************************************************)
EXTENDS Integers, Sequences, FiniteSets, TLC

\* ------------------------------------------------------------------ bounds
MaxNew == 2          \* constructor calls in one behaviour
MaxRenders == 2      \* render calls in one behaviour
MaxPending == 1      \* promises of asynchronous renders kept in the state

\* ------------------------------------------------------- JavaScript values
\* A JavaScript value is [t, v]: t its kind, v the number (or the length of
\* the string).  NaN is a kind of its own whose typeof is 'number'.
Undefined == [t |-> "undefined", v |-> 0]
NaN == [t |-> "nan", v |-> 0]
Num(n) == [t |-> "number", v |-> n]
Str(len) == [t |-> "string", v |-> len]

TypeOf(x) ==
    CASE x.t = "nan" -> "number"
      [] x.t = "null" -> "object"
      [] OTHER -> x.t

\* ToBoolean: undefined, null, NaN, 0 and "" are falsy.
Truthy(x) ==
    CASE x.t = "undefined" -> FALSE
      [] x.t = "null" -> FALSE
      [] x.t = "nan" -> FALSE
      [] x.t = "number" -> x.v # 0
      [] x.t = "string" -> x.v # 0
      [] OTHER -> TRUE

\* ----------------------------------------------------------------- inputs
\* Values a caller may pass as width and as height: missing, a string, NaN,
\* zero, a negative number, a positive number.
WidthValues == {Undefined, Str(3), NaN, Num(0), Num(-1), Num(2)}
HeightValues == {Undefined, Str(3), NaN, Num(0), Num(-1), Num(3)}

\* chartCallback: absent, a callback that registers a component and returns,
\* one that registers a component and raises, one that is async (returns a
\* promise and registers its component when it resumes).
CallbackKinds == {"none", "sync", "raises", "async"}

\* backgroundColour: "" stands for an absent option.
ColourValues == {"", "red"}

\* The options argument of the constructor: undefined, null, a string, or an
\* object with the fields of ChartJSNodeCanvasOptions.  `type` is left out:
\* the constructor stores it lower-cased in _type, which no method reads.
NonObjectOptions ==
    { [t |-> k, width |-> Undefined, height |-> Undefined, chartCallback |-> "none",
       backgroundColour |-> ""] : k \in {"undefined", "null", "string"} }

ObjectOptions ==
    [t : {"object"}, width : WidthValues, height : HeightValues,
     chartCallback : CallbackKinds, backgroundColour : ColourValues]

OptionsValues == NonObjectOptions \cup ObjectOptions

NoOptions == [t |-> "undefined", width |-> Undefined, height |-> Undefined,
              chartCallback |-> "none", backgroundColour |-> ""]

\* configuration.options: absent, or an object whose responsive and animation
\* fields are absent, true or false.
FlagValues == {"absent", "true", "false"}
ConfigOptionsValues ==
    {[present |-> FALSE, responsive |-> "absent", animation |-> "absent"]}
    \cup [present : {TRUE}, responsive : FlagValues, animation : FlagValues]

\* The configuration object the caller holds and passes to the render calls.
Configs == {"configuration"}
\* Identities of the chart.js module instances: at most one per constructor call.
Modules == 1..(MaxNew + 2)

\* ------------------------------------------------------------------ state
VARIABLES
    cache,          \* require.cache[require.resolve('chart.js')]: a module, or 0
    loaded,         \* number of chart.js module instances loaded so far
    registry,       \* per module instance, the components registered on it
    pendingHooks,   \* async chartCallbacks that have not resumed yet
    facades,        \* the ChartJSNodeCanvas instances constructed, in order
    constructions,  \* one record per constructor call that reached initialize
    news,           \* number of constructor calls made
    globalImage,    \* whether (global as any).Image is bound
    config,         \* the caller's configuration objects: their options
    surfaces,       \* number of canvases allocated so far
    promises,       \* promises returned by the asynchronous render methods
    firstSync,      \* per (facade, configuration): the first renderToBufferSync
    lastCall        \* the most recent call or callback and how it ended

vars == <<cache, loaded, registry, pendingHooks, facades, constructions, news,
          globalImage, config, surfaces, promises, firstSync, lastCall>>

\* ------------------------------------------------ BackgroundColourPlugin
\* A registered component.  kind "bg" is a BackgroundColourPlugin with its
\* three captured fields; kind "ext" is a component registered by the
\* chartCallback of constructor call `owner`.
BackgroundColourPlugin(width, height, fillStyle) ==
    [kind |-> "bg", _width |-> width, _height |-> height, _fillStyle |-> fillStyle,
     owner |-> 0]

CallbackComponent(owner) ==
    [kind |-> "ext", _width |-> 0, _height |-> 0, _fillStyle |-> "", owner |-> owner]

\* -------------------------------------------------------------- constructor
\* ValidationError without the typeof tests on width and height.
ValidationErrorTruthyOnly(options) ==
    IF options.t = "null" \/ TypeOf(options) # "object"
        THEN "An options parameter object is required"
    ELSE IF ~Truthy(options.width)
        THEN "A width option is required"
    ELSE IF ~Truthy(options.height)
        THEN "A height option is required"
    ELSE ""

\* The three checks at the head of the constructor: the message of the Error
\* thrown, or "" when the options pass.
ValidationError(options) ==
    IF options.t = "null" \/ TypeOf(options) # "object"
        THEN "An options parameter object is required"
    ELSE IF ~Truthy(options.width) \/ TypeOf(options.width) # "number"
        THEN "A width option is required"
    ELSE IF ~Truthy(options.height) \/ TypeOf(options.height) # "number"
        THEN "A height option is required"
    ELSE ""

\* The part of the state the constructor works on, as one record.
World ==
    [cache |-> cache, loaded |-> loaded, registry |-> registry,
     pendingHooks |-> pendingHooks, facades |-> facades,
     constructions |-> constructions, news |-> news]

\* require('chart.js'): the cached module instance, or a newly loaded one
\* that is entered in the cache.
Require(w) ==
    IF w.cache # 0
        THEN [module |-> w.cache, fresh |-> FALSE, loaded |-> w.loaded]
        ELSE [module |-> w.loaded + 1, fresh |-> TRUE, loaded |-> w.loaded + 1]

\* chartJs.register(component)
Register(reg, module, component) ==
    [reg EXCEPT ![module] = @ \cup {component}]

\* The fill style the constructor passes to new BackgroundColourPlugin.
FillStyleOf(options) == "#fff"

\* initialize(options), called by constructor call `owner` in world w: the
\* world it leaves, the module it returns, whether it raised (the
\* chartCallback raised), and the order of its steps (log).
initialize(w, options, owner) ==
    LET r == Require(w)
        chartJs == r.module
        \* options.chartCallback(chartJs): the result is not used
        regAfterHook ==
            IF options.chartCallback \in {"sync", "raises"}
                THEN Register(w.registry, chartJs, CallbackComponent(owner))
                ELSE w.registry
        hooksAfter ==
            IF options.chartCallback = "async"
                THEN w.pendingHooks \cup {[module |-> chartJs, owner |-> owner]}
                ELSE w.pendingHooks
        pending == options.chartCallback = "async"
        log == [owner |-> owner, module |-> chartJs, fresh |-> r.fresh,
                initializeRuns |-> 1,
                hook |-> options.chartCallback # "none",
                hookCalls |-> IF options.chartCallback # "none" THEN 1 ELSE 0,
                hookPendingAtRegister |-> FALSE, hookPendingAtEvict |-> FALSE,
                registered |-> FALSE, evicted |-> FALSE, raised |-> FALSE]
    IN  IF options.chartCallback = "raises"
            THEN [raised |-> TRUE, chartJs |-> chartJs,
                  world |-> [w EXCEPT !.cache = chartJs, !.loaded = r.loaded,
                                      !.registry = regAfterHook,
                                      !.pendingHooks = hooksAfter,
                                      !.constructions =
                                          Append(@, [log EXCEPT !.raised = TRUE])]]
            ELSE [raised |-> FALSE, chartJs |-> chartJs,
                  world |-> [w EXCEPT !.cache = 0, !.loaded = r.loaded,
                                      !.registry = Register(regAfterHook, chartJs,
                                          BackgroundColourPlugin(options.width.v,
                                              options.height.v, FillStyleOf(options))),
                                      !.pendingHooks = hooksAfter,
                                      !.constructions =
                                          Append(@, [log EXCEPT !.registered = TRUE,
                                                                !.evicted = TRUE,
                                                                !.hookPendingAtRegister = pending,
                                                                !.hookPendingAtEvict = pending])]]

NoCall ==
    [op |-> "none", facade |-> 0, cfg |-> "", options |-> NoOptions,
     delivery |-> "none", error |-> "", engine |-> "",
     surface |-> 0, seenWidth |-> 0, seenHeight |-> 0, seenEngine |-> 0,
     seenOptions |-> [present |-> FALSE, responsive |-> "absent", animation |-> "absent"],
     givenOptions |-> [present |-> FALSE, responsive |-> "absent", animation |-> "absent"],
     painted |-> <<>>, promise |-> 0]

\* new ChartJSNodeCanvas(options) in world w: the world it leaves and how the
\* call ended.
constructor(w, options) ==
    LET owner == w.news + 1
        counted == [w EXCEPT !.news = owner]
        call == [NoCall EXCEPT !.op = "new", !.options = options]
    IN  IF ValidationError(options) # ""
            THEN [world |-> counted,
                  call |-> [call EXCEPT !.delivery = "threw",
                                        !.error = ValidationError(options)]]
        ELSE LET i == initialize(counted, options, owner) IN
            IF i.raised
                THEN [world |-> i.world,
                      call |-> [call EXCEPT !.delivery = "threw", !.error = "chartCallback"]]
                ELSE [world |-> [i.world EXCEPT !.facades =
                                    Append(@, [_width |-> options.width.v,
                                               _height |-> options.height.v,
                                               _chartJs |-> i.chartJs,
                                               owner |-> owner])],
                      call |-> [call EXCEPT !.delivery = "returned",
                                            !.facade = Len(w.facades) + 1]]

Construct(options) ==
    /\ news < MaxNew
    /\ LET c == constructor(World, options) IN
        /\ cache' = c.world.cache
        /\ loaded' = c.world.loaded
        /\ registry' = c.world.registry
        /\ pendingHooks' = c.world.pendingHooks
        /\ facades' = c.world.facades
        /\ constructions' = c.world.constructions
        /\ news' = c.world.news
        /\ lastCall' = c.call
    /\ UNCHANGED <<globalImage, config, surfaces, promises, firstSync>>

\* An async chartCallback resumes and registers its component on the module
\* it was given.
CallbackResumes(h) ==
    /\ h \in pendingHooks
    /\ pendingHooks' = pendingHooks \ {h}
    /\ registry' = Register(registry, h.module, CallbackComponent(h.owner))
    /\ lastCall' = [NoCall EXCEPT !.op = "callbackResumes"]
    /\ UNCHANGED <<cache, loaded, facades, constructions, news, globalImage, config,
                   surfaces, promises, firstSync>>

\* ------------------------------------------------------- drawing context
\* A 2D context: the current fill style, the stack of saved states, and the
\* calls made on it so far.
CtxOp(name, style, w, h) == [op |-> name, style |-> style, x |-> 0, y |-> 0, w |-> w, h |-> h]

CtxSave(ctx) ==
    [ctx EXCEPT !.stack = Append(@, ctx.fillStyle),
                !.ops = Append(@, CtxOp("save", "", 0, 0))]

CtxSetFillStyle(ctx, style) ==
    [ctx EXCEPT !.fillStyle = style,
                !.ops = Append(@, CtxOp("fillStyle", style, 0, 0))]

CtxFillRect(ctx, w, h) ==
    [ctx EXCEPT !.ops = Append(@, CtxOp("fillRect", ctx.fillStyle, w, h))]

\* restore() pops the saved state; on an empty stack it does nothing.
CtxRestore(ctx) ==
    IF Len(ctx.stack) = 0
        THEN [ctx EXCEPT !.ops = Append(@, CtxOp("restore", "", 0, 0))]
        ELSE [ctx EXCEPT !.fillStyle = ctx.stack[Len(ctx.stack)],
                         !.stack = SubSeq(@, 1, Len(ctx.stack) - 1),
                         !.ops = Append(@, CtxOp("restore", "", 0, 0))]

\* The states in which chart.js may hand the context to a beforeDraw hook.
CtxStates ==
    {[fillStyle |-> "#000", stack |-> <<>>, ops |-> <<>>],
     [fillStyle |-> "blue", stack |-> <<"green">>, ops |-> <<>>]}

\* beforeDraw without the closing ctx.restore().
beforeDrawNoRestore(plugin, ctx) ==
    CtxFillRect(CtxSetFillStyle(CtxSave(ctx), plugin._fillStyle),
                plugin._width, plugin._height)

\* BackgroundColourPlugin.beforeDraw(chart), on chart.ctx
beforeDraw(plugin, ctx) ==
    LET saved == CtxSave(ctx)
        styled == CtxSetFillStyle(saved, plugin._fillStyle)
        filled == CtxFillRect(styled, plugin._width, plugin._height)
    IN  CtxRestore(filled)

\* chart.js notifies the registered plugins that have a beforeDraw hook, one
\* after the other on the same context: the list of
\* [plugin, context before, context after].
RECURSIVE NotifyBeforeDraw(_, _)
NotifyBeforeDraw(plugins, ctx) ==
    IF plugins = {} THEN <<>>
    ELSE LET p == CHOOSE q \in plugins : TRUE
             after == beforeDraw(p, [ctx EXCEPT !.ops = <<>>])
         IN  <<[plugin |-> p, pre |-> [ctx EXCEPT !.ops = <<>>], post |-> after]>>
             \o NotifyBeforeDraw(plugins \ {p}, after)

\* ----------------------------------------------------------------- render
\* The outcomes of `new this._chartJs(context, configuration)`: the chart is
\* built and painted, the constructor raises, or the chart is built without
\* a canvas.
EngineOutcomes == {"ok", "raises", "noCanvas"}
EncodeOutcomes == {"ok", "error"}

\* ForceOptions that only fills in the two fields when they are absent.
ForceOptionsWhenAbsent(options) ==
    LET o == IF options.present THEN options
             ELSE [present |-> TRUE, responsive |-> "absent", animation |-> "absent"]
    IN  [o EXCEPT !.responsive = IF @ = "absent" THEN "false" ELSE @,
                  !.animation = IF @ = "absent" THEN "false" ELSE @]

\* configuration.options = configuration.options || {};
\* configuration.options.responsive = false; configuration.options.animation = false
ForceOptions(options) ==
    LET o == IF options.present THEN options
             ELSE [present |-> TRUE, responsive |-> "absent", animation |-> "absent"]
    IN  [o EXCEPT !.responsive = "false", !.animation = "false"]

\* A facade that keeps one canvas and hands it out again.
ReusedCanvas(allocated) == IF allocated = 0 THEN 1 ELSE allocated

\* new NAPICanvas(this._width, this._height): the identity of the new canvas,
\* given the number of canvases allocated so far.
NewCanvas(allocated) == allocated + 1

\* renderChart(configuration) on facade f: what it leaves behind and whether
\* the chart constructor raised.
renderChart(f, c, engine, ctx) ==
    LET self == facades[f]
        canvas == NewCanvas(surfaces)
        options == ForceOptions(config[c])
        bound == TRUE      \* (global as any).Image = this._image
        painted == IF engine = "ok"
                     THEN NotifyBeforeDraw({p \in registry[self._chartJs] : p.kind = "bg"}, ctx)
                     ELSE <<>>
    IN  [raised |-> engine = "raises",
         canvas |-> IF engine = "ok" THEN canvas ELSE 0,
         surfaces |-> canvas,
         options |-> options,
         \* delete (global as any).Image is not reached when the constructor raises
         globalImage |-> IF engine = "raises" THEN bound ELSE FALSE,
         call |-> [NoCall EXCEPT !.facade = f, !.cfg = c, !.givenOptions = config[c], !.engine = engine,
                                 !.surface = canvas,
                                 !.seenWidth = self._width, !.seenHeight = self._height,
                                 !.seenEngine = self._chartJs,
                                 !.seenOptions = options,
                                 !.painted = painted]]

RenderFrame == <<cache, loaded, registry, pendingHooks, facades, constructions, news>>

CanRender(f, c) ==
    /\ f \in 1..Len(facades)
    /\ c \in Configs
    /\ surfaces < MaxRenders

\* renderToBufferSync(configuration)
renderToBufferSync(f, c, engine, ctx, encode) ==
    /\ CanRender(f, c)
    /\ LET r == renderChart(f, c, engine, ctx)
           failed == r.raised \/ r.canvas = 0 \/ encode = "error"
           call == [r.call EXCEPT !.op = "renderToBufferSync",
                       !.delivery = IF failed THEN "threw" ELSE "returned",
                       !.error = IF r.raised THEN "chart"
                                 ELSE IF r.canvas = 0 THEN "TypeError"
                                 ELSE IF encode = "error" THEN "encode" ELSE ""]
       IN  /\ surfaces' = r.surfaces
           /\ config' = [config EXCEPT ![c] = r.options]
           /\ globalImage' = r.globalImage
           /\ lastCall' = call
           /\ firstSync' = IF \E e \in firstSync : e.facade = f /\ e.cfg = c
                             THEN firstSync
                             ELSE firstSync \cup {[facade |-> f, cfg |-> c,
                                      surface |-> call.surface,
                                      seenWidth |-> call.seenWidth,
                                      seenHeight |-> call.seenHeight,
                                      seenEngine |-> call.seenEngine,
                                      after |-> r.options]}
    /\ UNCHANGED RenderFrame
    /\ UNCHANGED promises

\* renderToBuffer(configuration): renderChart runs in the caller's frame, then
\* the promise of canvas.encode('png') is returned.
renderToBuffer(f, c, engine, ctx) ==
    /\ CanRender(f, c)
    /\ Len(promises) < MaxPending
    /\ LET r == renderChart(f, c, engine, ctx)
           failed == r.raised \/ r.canvas = 0
       IN  /\ surfaces' = r.surfaces
           /\ config' = [config EXCEPT ![c] = r.options]
           /\ globalImage' = r.globalImage
           /\ promises' = IF failed THEN promises
                          ELSE Append(promises, [op |-> "renderToBuffer", state |-> "pending",
                                                 destroyed |-> FALSE])
           /\ lastCall' = [r.call EXCEPT !.op = "renderToBuffer",
                       !.delivery = IF failed THEN "threw" ELSE "promise",
                       !.promise = IF failed THEN 0 ELSE Len(promises) + 1,
                       !.error = IF r.raised THEN "chart"
                                 ELSE IF r.canvas = 0 THEN "TypeError" ELSE ""]
    /\ UNCHANGED RenderFrame
    /\ UNCHANGED firstSync

\* renderToDataURL(configuration, mimeType): renderChart runs in the caller's
\* frame; the promise rejects at once when chart.canvas is absent.
renderToDataURL(f, c, engine, ctx) ==
    /\ CanRender(f, c)
    /\ Len(promises) < MaxPending
    /\ LET r == renderChart(f, c, engine, ctx)
       IN  /\ surfaces' = r.surfaces
           /\ config' = [config EXCEPT ![c] = r.options]
           /\ globalImage' = r.globalImage
           /\ promises' = IF r.raised THEN promises
                          ELSE Append(promises,
                                 [op |-> "renderToDataURL",
                                  state |-> IF r.canvas = 0 THEN "rejected" ELSE "pending",
                                  destroyed |-> FALSE])
           /\ lastCall' = [r.call EXCEPT !.op = "renderToDataURL",
                       !.delivery = IF r.raised THEN "threw" ELSE "promise",
                       !.promise = IF r.raised THEN 0 ELSE Len(promises) + 1,
                       !.error = IF r.raised THEN "chart"
                                 ELSE IF r.canvas = 0 THEN "Canvas is null" ELSE ""]
    /\ UNCHANGED RenderFrame
    /\ UNCHANGED firstSync

\* renderToDataURLSync(configuration, mimeType)
renderToDataURLSync(f, c, engine, ctx, encode) ==
    /\ CanRender(f, c)
    /\ LET r == renderChart(f, c, engine, ctx)
           failed == r.raised \/ r.canvas = 0 \/ encode = "error"
       IN  /\ surfaces' = r.surfaces
           /\ config' = [config EXCEPT ![c] = r.options]
           /\ globalImage' = r.globalImage
           /\ lastCall' = [r.call EXCEPT !.op = "renderToDataURLSync",
                       !.delivery = IF failed THEN "threw" ELSE "returned",
                       !.error = IF r.raised THEN "chart"
                                 ELSE IF r.canvas = 0 THEN "Canvas is null"
                                 ELSE IF encode = "error" THEN "encode" ELSE ""]
    /\ UNCHANGED RenderFrame
    /\ UNCHANGED <<promises, firstSync>>

\* The canvas library settles a pending encode: the promise of encode('png'),
\* or the callback of toDataURL, which destroys the chart first.
EncodeSettles(p, encode) ==
    /\ p \in 1..Len(promises)
    /\ promises[p].state = "pending"
    /\ promises' = [promises EXCEPT ![p] =
                      [@ EXCEPT !.state = IF encode = "error" THEN "rejected" ELSE "resolved",
                                !.destroyed = (promises[p].op = "renderToDataURL")]]
    /\ lastCall' = [NoCall EXCEPT !.op = "encodeSettles", !.promise = p]
    /\ UNCHANGED <<cache, loaded, registry, pendingHooks, facades, constructions, news,
                   globalImage, config, surfaces, firstSync>>

\* ---------------------------------------------------------- specification
EmptyWorld ==
    [cache |-> 0, loaded |-> 0, registry |-> [m \in Modules |-> {}],
     pendingHooks |-> {}, facades |-> <<>>, constructions |-> <<>>, news |-> 0]

InWorld(w) ==
    /\ cache = w.cache
    /\ loaded = w.loaded
    /\ registry = w.registry
    /\ pendingHooks = w.pendingHooks
    /\ facades = w.facades
    /\ constructions = w.constructions
    /\ news = w.news

\* A process that has constructed nothing yet: constructor calls, and the
\* async chartCallbacks resuming.
ConstructInit ==
    /\ InWorld(EmptyWorld)
    /\ globalImage = FALSE
    /\ config = [c \in Configs |-> [present |-> FALSE, responsive |-> "absent",
                                      animation |-> "absent"]]
    /\ surfaces = 0
    /\ promises = <<>>
    /\ firstSync = {}
    /\ lastCall = NoCall

ConstructNext ==
    \/ \E options \in OptionsValues : Construct(options)
    \/ \E h \in pendingHooks : CallbackResumes(h)

ConstructSpec == ConstructInit /\ [][ConstructNext]_vars

\* The options of the facades the render specification starts from.
SetupOptions ==
    {o \in ObjectOptions : /\ o.width = Num(2) /\ o.height = Num(3)
                           /\ o.chartCallback \in {"sync", "async"}
                           /\ o.backgroundColour = "red"}

\* A process in which two facades have been constructed: render calls on
\* them, the encodes settling and the async chartCallbacks resuming.
Init ==
    /\ \E o1 \in SetupOptions, o2 \in SetupOptions :
          InWorld(constructor(constructor(EmptyWorld, o1).world, o2).world)
    /\ globalImage = FALSE
    /\ config \in [Configs -> ConfigOptionsValues]
    /\ surfaces = 0
    /\ promises = <<>>
    /\ firstSync = {}
    /\ lastCall = NoCall

Next ==
    \/ \E h \in pendingHooks : CallbackResumes(h)
    \/ \E f \in 1..Len(facades), c \in Configs, engine \in EngineOutcomes,
          ctx \in CtxStates, encode \in EncodeOutcomes :
            renderToBufferSync(f, c, engine, ctx, encode)
    \/ \E f \in 1..Len(facades), c \in Configs, engine \in EngineOutcomes, ctx \in CtxStates :
            renderToBuffer(f, c, engine, ctx)
    \/ \E f \in 1..Len(facades), c \in Configs, engine \in EngineOutcomes, ctx \in CtxStates :
            renderToDataURL(f, c, engine, ctx)
    \/ \E f \in 1..Len(facades), c \in Configs, engine \in EngineOutcomes,
          ctx \in CtxStates, encode \in EncodeOutcomes :
            renderToDataURLSync(f, c, engine, ctx, encode)
    \/ \E p \in 1..Len(promises), encode \in EncodeOutcomes : EncodeSettles(p, encode)

Spec == Init /\ [][Next]_vars

\* ------------------------------------------------------------------ claims
RenderOps == {"renderToBuffer", "renderToBufferSync", "renderToDataURL", "renderToDataURLSync"}
AsyncOps == {"renderToBuffer", "renderToDataURL"}
SyncOps == {"renderToBufferSync", "renderToDataURLSync"}

Forced(options) ==
    options.present /\ options.responsive = "false" /\ options.animation = "false"

\* C1: after any render call has returned or failed, also when the chart
\* constructor raised, the global Image binding is not present.
C1_ImageReleasedAfterRender ==
    lastCall.op \in RenderOps => globalImage = FALSE

\* The options the claim C2 speaks of: not an object, or width or height
\* missing or not a number.
MissingOrNotNumber(x) == x.t \in {"undefined", "string"}
RejectedByContract(options) ==
    \/ options.t # "object"
    \/ MissingOrNotNumber(options.width)
    \/ MissingOrNotNumber(options.height)

\* C2: a constructor call with options that are missing or not an object, or
\* whose width or height is missing or not a number, throws, and nothing else
\* has happened: no module loaded, no chartCallback invoked, nothing
\* registered, the module cache untouched, no surface allocated, no facade.
C2_InvalidOptionsThrowBeforeSideEffects ==
    [][(lastCall'.op = "new" /\ RejectedByContract(lastCall'.options))
        => /\ lastCall'.delivery = "threw"
           /\ loaded' = loaded
           /\ cache' = cache
           /\ registry' = registry
           /\ pendingHooks' = pendingHooks
           /\ constructions' = constructions
           /\ facades' = facades
           /\ surfaces' = surfaces]_vars

\* C2 witness: a call with a non-numeric width has thrown in a process that
\* already holds a facade.
C2_Witness ==
    /\ lastCall.op = "new"
    /\ lastCall.options.t = "object"
    /\ lastCall.options.width = Str(3)
    /\ lastCall.delivery = "threw"
    /\ Len(facades) = 1

\* C3: a failure of renderToBuffer or renderToDataURL is delivered as a
\* rejected promise, never as a throw from the call; a failure of
\* renderToBufferSync or renderToDataURLSync is delivered as a throw.
C3_AsyncRejectsSyncThrows ==
    /\ (lastCall.op \in AsyncOps /\ lastCall.error # "")
          => /\ lastCall.delivery = "promise"
             /\ promises[lastCall.promise].state = "rejected"
    /\ (lastCall.op \in SyncOps /\ lastCall.error # "")
          => lastCall.delivery = "threw"

\* C4: every successful construction obtains a module instance that no other
\* constructor call (also one whose chartCallback raised) obtained, and the
\* components chartCallbacks registered on it are those of its own call.
C4_FacadesIsolated ==
    \A i \in DOMAIN constructions :
        ~constructions[i].raised =>
            /\ \A j \in DOMAIN constructions :
                  j # i => constructions[j].module # constructions[i].module
            /\ \A p \in registry[constructions[i].module] :
                  p.kind = "ext" => p.owner = constructions[i].owner

\* C5: after every render call the chart constructor has been given
\* options.responsive = false and options.animation = false, and the caller's
\* configuration holds those two values, whatever it held before.
C5_OptionsForced ==
    lastCall.op \in RenderOps =>
        /\ Forced(lastCall.seenOptions)
        /\ Forced(config[lastCall.cfg])

\* C5 witness: a render call on a configuration that had animation and
\* responsive set to true, in which the chart constructor raised.
C5_Witness ==
    /\ lastCall.op \in RenderOps
    /\ lastCall.givenOptions.present
    /\ lastCall.givenOptions.responsive = "true"
    /\ lastCall.givenOptions.animation = "true"
    /\ lastCall.engine = "raises"

\* C6: a renderToBufferSync on a facade and configuration that were already
\* used together allocates a surface not allocated before, sees the width,
\* height and engine reference the first call saw, leaves the configuration as
\* the first call left it, and throws only when a collaborator failed in this
\* call.
C6_SecondSyncRenderIndependent ==
    [][\A e \in firstSync :
         (/\ lastCall'.op = "renderToBufferSync"
          /\ lastCall'.facade = e.facade
          /\ lastCall'.cfg = e.cfg)
         => /\ lastCall'.surface \notin 1..surfaces
            /\ lastCall'.seenWidth = e.seenWidth
            /\ lastCall'.seenHeight = e.seenHeight
            /\ lastCall'.seenEngine = e.seenEngine
            /\ config'[e.cfg] = e.after
            /\ lastCall'.delivery = "threw"
                   => (lastCall'.engine # "ok" \/ lastCall'.error = "encode")]_vars

\* C6 witness: the second renderToBufferSync of a facade with the same
\* configuration has returned, after a first one in which the chart
\* constructor raised.
C6_Witness ==
    /\ lastCall.op = "renderToBufferSync"
    /\ lastCall.delivery = "returned"
    /\ globalImage = FALSE
    /\ \E e \in firstSync : /\ e.facade = lastCall.facade
                            /\ e.cfg = lastCall.cfg
                            /\ e.surface < lastCall.surface

\* C7: when backgroundColour is supplied, the BackgroundColourPlugin
\* registered for the facade fills with that colour on every chart.
C7_SuppliedColourPainted ==
    (/\ lastCall.op = "new"
     /\ lastCall.delivery = "returned"
     /\ lastCall.options.backgroundColour # "")
    => \A p \in registry[facades[lastCall.facade]._chartJs] :
          p.kind = "bg" =>
             \A ctx \in CtxStates :
                \E k \in DOMAIN beforeDraw(p, ctx).ops :
                    /\ beforeDraw(p, ctx).ops[k].op = "fillRect"
                    /\ beforeDraw(p, ctx).ops[k].style = lastCall.options.backgroundColour

\* C8: every constructed facade has a positive width and a positive height.
C8_PositiveDimensions ==
    \A i \in DOMAIN facades : facades[i]._width > 0 /\ facades[i]._height > 0

\* C9: initialize runs once per facade; a supplied chartCallback is invoked
\* once, with a module instance loaded for this call, and has completed before
\* the BackgroundColourPlugin is registered, before the module cache is
\* evicted, and before a render call of the facade constructs a chart.
C9_HookCompletesFirst ==
    /\ \A i \in DOMAIN facades :
          Cardinality({k \in DOMAIN constructions :
                          constructions[k].owner = facades[i].owner}) = 1
    /\ \A k \in DOMAIN constructions :
          /\ constructions[k].initializeRuns = 1
          /\ constructions[k].hook =>
                /\ constructions[k].hookCalls = 1
                /\ constructions[k].fresh
                /\ ~constructions[k].hookPendingAtRegister
                /\ ~constructions[k].hookPendingAtEvict
    /\ lastCall.op \in RenderOps =>
          \A h \in pendingHooks : h.owner # facades[lastCall.facade].owner

ExpectedDraw(plugin, w, h) ==
    <<CtxOp("save", "", 0, 0),
      CtxOp("fillStyle", plugin._fillStyle, 0, 0),
      CtxOp("fillRect", plugin._fillStyle, w, h),
      CtxOp("restore", "", 0, 0)>>

\* C10: every beforeDraw of a rendered chart did save, set fill style, fill
\* the rectangle (0,0)-(width,height) of the facade, restore, in this order,
\* and left the context's fill style and saved-state stack as they were.
C10_BeforeDrawFramed ==
    lastCall.op \in RenderOps =>
        \A k \in DOMAIN lastCall.painted :
            LET d == lastCall.painted[k] IN
            /\ d.post.ops = ExpectedDraw(d.plugin, facades[lastCall.facade]._width,
                                         facades[lastCall.facade]._height)
            /\ d.post.fillStyle = d.pre.fillStyle
            /\ d.post.stack = d.pre.stack

\* C10 witness: a chart was painted on a context whose fill style differed
\* from the plugin's and whose stack held a saved state.
C10_Witness ==
    /\ lastCall.op \in RenderOps
    /\ Len(lastCall.painted) = 1
    /\ lastCall.painted[1].pre.fillStyle = "blue"
    /\ Len(lastCall.painted[1].pre.stack) = 1

====
